---- MODULE Spec2Model ----
(***************************************************************************)
(* Model of the word2vec training engine of cran/wordvector:               *)
(*   word2vec_t::train          src/src/word2vec/word2vec.cpp              *)
(*   trainThread_t (interface)  src/src/word2vec/trainThread.hpp           *)
(* The body of trainThread_t::worker is not part of the two source files;  *)
(* the worker steps below follow section 4.4 of the specification.         *)
(***************************************************************************)
EXTENDS Integers, Naturals, Sequences, FiniteSets, TLC

VARIABLES
    pc,        \* position of the caller inside word2vec_t::train
    calls,     \* number of train calls started on this word2vec_t object
    cur,       \* the arguments of the running call: _settings and _corpus
    m,         \* the word2vec_t members m_vectorSize, m_vocaburarySize, ...
    data,      \* trainThread_t::data_t data, local to the call
    threads,   \* std::vector<std::unique_ptr<trainThread_t>> threads
    i,         \* loop index of the create / launch / join loops
    iter,      \* int iter, handed by reference to every worker
    iter_prev, \* int iter_prev of the verbose loop
    ret,       \* what the call returned: "none", "true", "false"
    proc,      \* the process: "alive", "terminated" (std::terminate), "crashed"
    failure,   \* the kind of failure raised during the running call
    huff,      \* the Huffman tree under construction (huffmanTree_t)
    nsd        \* the negative-sampling table under construction (nsDistribution_t)

vars == <<pc, calls, cur, m, data, threads, i, iter, iter_prev, ret, proc, failure,
          huff, nsd>>

----------------------------------------------------------------------------
(* Bounds of the model *)

MaxSize == 1        \* settings->size is drawn from 0..MaxSize
MaxVocab == 1       \* corpus->words.size() is drawn from 0..MaxVocab
MaxTrainWords == 1  \* corpus.trainWords is drawn from 0..MaxTrainWords
MaxDocs == 2        \* corpus->texts.size() is drawn from 0..MaxDocs
MaxDocLen == 1      \* words per document
MaxThreads == 2     \* settings->threads is drawn from 0..MaxThreads
MaxIter == 1        \* settings->iterations is drawn from 0..MaxIter
AlphaInit == 2      \* settings->alpha, in model units
FracDen == 4        \* the floor fraction of the rate is MinFracNum / FracDen
MinFracNum == 1
SizeMod == 1073741824  \* std::size_t arithmetic wraps modulo SizeMod
MaxPartDocs == 8     \* PartSpec: small document counts 0..MaxPartDocs
MaxPartExtra == 3    \* PartSpec: document counts up to 2^24 + MaxPartExtra
MaxHuffVocab == 4
MaxHuffFreq == 3
MaxNsVocab == 3
MaxNsRoot == 2
MaxNsTable == 4
MaxPartThreads == 4  \* PartSpec: settings->threads is drawn from 0..MaxPartThreads

(* IEEE-754 binary32: 24 significant bits *)
FloatMantBits == 24

Null == 0 - 1

Min(a, b) == IF a <= b THEN a ELSE b
Max(a, b) == IF a >= b THEN a ELSE b

----------------------------------------------------------------------------
(* (float)n and the float division of word2vec.cpp:67 *)

Pow2Mant == 2 ^ FloatMantBits

RECURSIVE Ulp(_)
(* spacing of binary32 values around the non-negative integer x *)
Ulp(x) == IF x < Pow2Mant THEN 1 ELSE 2 * Ulp(x \div 2)

(* a / d rounded to the nearest integer, ties to even *)
RoundDiv(a, d) ==
    LET q == a \div d
        r == a % d
    IN  IF 2 * r < d THEN q
        ELSE IF 2 * r > d THEN q + 1
        ELSE IF q % 2 = 0 THEN q ELSE q + 1

(* (float)x for a std::size_t x: round to nearest, ties to even *)
ToFloat(x) == RoundDiv(x, Ulp(x)) * Ulp(x)

RECURSIVE FracScale(_)
(* number of binary32 values per unit interval just above the integer q >= 1 *)
FracScale(q) == IF 2 * q >= Pow2Mant THEN 1 ELSE 2 * FracScale(2 * q)

(* ceil(a / b) where a, b are binary32 values holding integers, b > 0, and
   the quotient is rounded to binary32 before ceil is applied *)
CeilFloatDiv(a, b) ==
    LET q == a \div b
        r == a % b
    IN  IF 2 * q >= Pow2Mant
          THEN RoundDiv(a, b * Ulp(q)) * Ulp(q)
        ELSE IF r = 0 THEN q
        ELSE IF q = 0 THEN 1
        ELSE IF r <= b \div (2 * FracScale(q)) THEN q
        ELSE q + 1

(* std::size_t per = ceil((float)n / (float)data.settings->threads);
   evaluated for threads >= 1 only: with threads = 0 the quotient is
   inf or NaN and per is never read, the loop body does not run *)
Per(n, t) == CeilFloatDiv(ToFloat(n), ToFloat(t))

(* std::size_t from = per * i; *)
RangeFrom(n, t, k) == (Per(n, t) * k) % SizeMod

(* std::size_t to = std::min(per * (i + 1) - 1, n - 1); *)
RangeTo(n, t, k) ==
    Min((Per(n, t) * (k + 1) - 1) % SizeMod, (n - 1) % SizeMod)

----------------------------------------------------------------------------
(* The arguments of train *)

(* const settings_t &_settings *)
Settings ==
    [size : 0..MaxSize, threads : 0..MaxThreads, iterations : 0..MaxIter,
     verbose : BOOLEAN, withHS : BOOLEAN]

(* const corpus_t &_corpus: words.size(), trainWords, texts.size() and the
   number of words of each document *)
Corpus ==
    [vocab : 0..MaxVocab, trainWords : 0..MaxTrainWords, nDocs : 0..MaxDocs,
     docLen : 1..MaxDocLen]

NoCall ==
    [size |-> 0, threads |-> 0, iterations |-> 0, verbose |-> FALSE,
     withHS |-> FALSE, vocab |-> 0, trainWords |-> 0, nDocs |-> 0, docLen |-> 1]

(* trainThread_t::data_t data; before anything is stored in it *)
NoData ==
    [bpWeights |-> Null, pjLayerValues |-> Null, huffmanTree |-> FALSE,
     processedWords |-> Null, alpha |-> Null,
     bpValues |-> "none", pjValues |-> "none"]

(* no huffmanTree_t has been built *)
NoTree == [st |-> "none", V |-> 0, weight |-> <<>>, parent |-> <<>>, bit |-> <<>>]

(* no nsDistribution_t has been built *)
NoTable == [st |-> "none", freq |-> <<>>, size |-> 0, table |-> <<>>]

(* the messages of the three validation throws *)
MsgVectorSize == "vectorSize is zero"
MsgVocabSize == "vocaburarySize is zero"
MsgTrainWords == "trainWords is zero"
MsgBadAlloc == "std::bad_alloc"
MsgHuffman == "huffmanTree_t failed"
MsgUnknown == "unknown error"

----------------------------------------------------------------------------
(* The learning-rate schedule.  A rate is held as an integer number of
   1 / RateUnit(c) parts of one unit of settings->alpha, which is exact. *)

(* iterations * totalTrainWords + 1 *)
RateDen(c) == c.iterations * c.trainWords + 1

RateUnit(c) == RateDen(c) * FracDen

(* the floor of the schedule: alpha_initial * minFraction *)
RateFloor(c) == AlphaInit * MinFracNum * RateDen(c)

(* alpha_initial * max(1 - processedWords / (iterations*totalTrainWords + 1),
                       minFraction) *)
Rate(c, processed) ==
    AlphaInit * Max((RateDen(c) - processed) * FracDen, MinFracNum * RateDen(c))

(* a counter that does not start at zero *)
InitProcessedWordsStale == 0 + 1

(* data.processedWords.reset(new std::atomic<std::size_t>(0)); *)
InitProcessedWords == 0

(* the shared rate started at 0.0, as the local alpha of line 78 is *)
InitAlphaZero(c) == 0

(* data.alpha.reset(new std::atomic<float>(settings->alpha)); *)
InitAlpha(c) == AlphaInit * RateUnit(c)

----------------------------------------------------------------------------
(* Workers *)

(* new trainThread_t(std::make_pair(from, to), data) *)
NewThread(from, to) ==
    [from |-> from, to |-> to, st |-> "idle", g |-> 1, h |-> from, k |-> 0,
     rd |-> Null, done |-> 0, launches |-> 0, joins |-> 0]

(* launch: m_thread.reset(new std::thread(&trainThread_t::worker, ...)) *)
Launched(t) == [t EXCEPT !.st = "running", !.launches = @ + 1]

(* a join that does not wait for the thread *)
JoinReturnsAtOnce(t) == t.st \in {"running", "finished"}

(* join: m_thread->join() returns once the thread has ended *)
JoinReturns(t) == t.st = "finished"

Joined(t) == [t EXCEPT !.joins = @ + 1]

----------------------------------------------------------------------------
(* word2vec_t::train *)

Init ==
    /\ pc = "idle"
    /\ calls = 0
    /\ cur = NoCall
    /\ m = [vectorSize |-> 0, vocaburarySize |-> 0, pjLayerValues |-> 0,
            bpWeights |-> 0, errMsg |-> "", bpValues |-> "none",
            pjValues |-> "none"]
    /\ data = NoData
    /\ threads = <<>>
    /\ i = 0
    /\ iter = 0
    /\ iter_prev = 0
    /\ ret = "none"
    /\ proc = "alive"
    /\ failure = "none"
    /\ huff = NoTree
    /\ nsd = NoTable

(* catch (const std::exception &_e) { m_errMsg = _e.what(); }
   catch (...) { m_errMsg = "unknown error"; }  return false; *)
Catch(msg, kind) ==
    /\ m' = [m EXCEPT !.errMsg = msg]
    /\ ret' = "false"
    /\ failure' = kind
    /\ pc' = "returned"

(* lines 17-25: the arguments are copied and m_vectorSize,
   m_vocaburarySize are set *)
Enter(s, c) ==
    /\ cur' = [size |-> s.size, threads |-> s.threads,
               iterations |-> s.iterations, verbose |-> s.verbose,
               withHS |-> s.withHS, vocab |-> c.vocab,
               trainWords |-> c.trainWords, nDocs |-> c.nDocs,
               docLen |-> c.docLen]
    /\ m' = [m EXCEPT !.vectorSize = s.size, !.vocaburarySize = c.vocab]
    /\ UNCHANGED <<huff, nsd>>

(* lines 13-25: train is called on a new word2vec_t object, with any
   settings and any corpus *)
Train ==
    /\ proc = "alive"
    /\ pc = "idle"
    /\ calls = 0
    /\ calls' = calls + 1
    /\ \E s \in Settings, c \in Corpus : Enter(s, c)
    /\ pc' = "validate"
    /\ ret' = "none"
    /\ failure' = "none"
    /\ UNCHANGED <<data, threads, i, iter, iter_prev, proc>>

(* lines 27-34 with the first two checks exchanged *)
ValidationErrorVocabFirst ==
    IF m.vocaburarySize = 0 THEN MsgVocabSize
    ELSE IF m.vectorSize = 0 THEN MsgVectorSize
    ELSE IF cur.trainWords = 0 THEN MsgTrainWords
    ELSE ""

(* lines 27-34 with the third check left out *)
ValidationErrorSkipsTrainWords ==
    IF m.vectorSize = 0 THEN MsgVectorSize
    ELSE IF m.vocaburarySize = 0 THEN MsgVocabSize
    ELSE ""

(* lines 27-34: the three checks, in this order; "" when nothing is thrown *)
ValidationError ==
    IF m.vectorSize = 0 THEN MsgVectorSize
    ELSE IF m.vocaburarySize = 0 THEN MsgVocabSize
    ELSE IF cur.trainWords = 0 THEN MsgTrainWords
    ELSE ""

(* lines 27-35: a failed check throws, which ends the call in the handler *)
Validate ==
    /\ proc = "alive"
    /\ pc = "validate"
    /\ IF ValidationError # ""
         THEN Catch(ValidationError, "validation")
         ELSE /\ pc' = "alloc"
              /\ UNCHANGED <<m, ret, failure>>
    /\ UNCHANGED <<calls, cur, data, threads, i, iter, iter_prev, proc>>
    /\ UNCHANGED <<huff, nsd>>

(* the product written as a sum *)
MatrixSizeSum == (m.vectorSize + m.vocaburarySize) % SizeMod

(* std::size_t matrixSize = m_vectorSize * m_vocaburarySize; *)
MatrixSize == (m.vectorSize * m.vocaburarySize) % SizeMod

(* The content of a matrix is kept as one of: "none" (no entry), "zero"
   (every entry 0.0f), "random" (every entry the value drawn for it from
   [-0.005, 0.005]), "trained" (entries rewritten by workers). *)

(* std::vector<float>(matrixSize, 0.0f) *)
ZeroFilled == "zero"

(* lines 44-47: std::generate with rndMatrixInitializer(randomGenerator) *)
RandomFilled == "random"

(* lines 37-55: the two matrices and the exp table are allocated *)
Alloc ==
    /\ proc = "alive"
    /\ pc = "alloc"
    /\ data' = [data EXCEPT !.bpWeights = MatrixSize,
                            !.pjLayerValues = MatrixSize,
                            !.bpValues = ZeroFilled,
                            !.pjValues = RandomFilled]
    /\ pc' = "setup"
    /\ UNCHANGED <<calls, cur, m, threads, i, iter, iter_prev, ret, proc, failure>>
    /\ UNCHANGED <<huff, nsd>>

(* lines 42-48: operator new throws std::bad_alloc *)
AllocFails ==
    /\ proc = "alive"
    /\ pc = "alloc"
    /\ Catch(MsgBadAlloc, "alloc")
    /\ UNCHANGED <<calls, cur, data, threads, i, iter, iter_prev, proc>>
    /\ UNCHANGED <<huff, nsd>>

(* lines 57-67: the Huffman tree when withHS, the two atomics, n and per *)
Setup ==
    /\ proc = "alive"
    /\ pc = "setup"
    /\ data' = [data EXCEPT !.huffmanTree = cur.withHS,
                            !.processedWords = InitProcessedWords,
                            !.alpha = InitAlpha(cur)]
    /\ i' = 0
    /\ pc' = "create"
    /\ UNCHANGED <<calls, cur, m, threads, iter, iter_prev, ret, proc, failure>>
    /\ UNCHANGED <<huff, nsd>>

(* line 58: huffmanTree_t's constructor throws, a std::exception or not *)
HuffmanFails(std) ==
    /\ proc = "alive"
    /\ pc = "setup"
    /\ cur.withHS
    /\ Catch(IF std THEN MsgHuffman ELSE MsgUnknown, "huffman")
    /\ UNCHANGED <<calls, cur, data, threads, i, iter, iter_prev, proc>>
    /\ UNCHANGED <<huff, nsd>>

(* lines 68-75: one turn of the loop that creates the workers *)
CreateThread ==
    /\ proc = "alive"
    /\ pc = "create"
    /\ i < cur.threads
    /\ LET from == RangeFrom(cur.nDocs, cur.threads, i)
           to == RangeTo(cur.nDocs, cur.threads, i)
       IN  /\ threads' = Append(threads, NewThread(from, to))
           /\ IF (cur.nDocs - 1) % SizeMod = to
                THEN pc' = "launch" /\ i' = 0 /\ iter' = 0
                ELSE pc' = pc /\ i' = i + 1 /\ iter' = iter
    /\ UNCHANGED <<calls, cur, m, data, iter_prev, ret, proc, failure>>
    /\ UNCHANGED <<huff, nsd>>

(* line 68: the loop condition i < settings->threads is false; line 77 *)
CreateDone ==
    /\ proc = "alive"
    /\ pc = "create"
    /\ i >= cur.threads
    /\ pc' = "launch"
    /\ i' = 0
    /\ iter' = 0
    /\ UNCHANGED <<calls, cur, m, data, threads, iter_prev, ret, proc, failure>>
    /\ UNCHANGED <<huff, nsd>>

(* line 72: new trainThread_t or emplace_back throws std::bad_alloc *)
CreateFails ==
    /\ proc = "alive"
    /\ pc = "create"
    /\ i < cur.threads
    /\ Catch(MsgBadAlloc, "alloc")
    /\ UNCHANGED <<calls, cur, data, threads, i, iter, iter_prev, proc>>
    /\ UNCHANGED <<huff, nsd>>

(* lines 79-81 and trainThread.hpp 81-83: one turn of the launch loop *)
Launch ==
    /\ proc = "alive"
    /\ pc = "launch"
    /\ i < Len(threads)
    /\ threads' = [threads EXCEPT ![i + 1] = Launched(@)]
    /\ i' = i + 1
    /\ UNCHANGED <<pc, calls, cur, m, data, iter, iter_prev, ret, proc, failure>>
    /\ UNCHANGED <<huff, nsd>>

(* trainThread.hpp 81-83: std::thread's constructor throws inside the
   noexcept launch, which calls std::terminate *)
LaunchFails ==
    /\ proc = "alive"
    /\ pc = "launch"
    /\ i < Len(threads)
    /\ proc' = "terminated"
    /\ failure' = "thread"
    /\ UNCHANGED <<pc, calls, cur, m, data, threads, i, iter, iter_prev, ret>>
    /\ UNCHANGED <<huff, nsd>>

(* lines 83-84: after the launch loop *)
LaunchDone ==
    /\ proc = "alive"
    /\ pc = "launch"
    /\ i >= Len(threads)
    /\ pc' = IF cur.verbose THEN "poll" ELSE "join"
    /\ iter_prev' = 0
    /\ i' = 0
    /\ UNCHANGED <<calls, cur, m, data, threads, iter, ret, proc, failure>>
    /\ UNCHANGED <<huff, nsd>>

(* lines 86-96: one turn of while (iter < iter_max) *)
Poll ==
    /\ proc = "alive"
    /\ pc = "poll"
    /\ iter < cur.iterations
    /\ iter_prev' = IF iter_prev < iter THEN iter ELSE iter_prev
    /\ UNCHANGED <<pc, calls, cur, m, data, threads, i, iter, ret, proc, failure>>
    /\ UNCHANGED <<huff, nsd>>

(* line 86: iter < iter_max is false *)
PollDone ==
    /\ proc = "alive"
    /\ pc = "poll"
    /\ ~(iter < cur.iterations)
    /\ pc' = "join"
    /\ UNCHANGED <<calls, cur, m, data, threads, i, iter, iter_prev, ret, proc, failure>>
    /\ UNCHANGED <<huff, nsd>>

(* lines 99-101 and trainThread.hpp 85-87: one turn of the join loop *)
Join ==
    /\ proc = "alive"
    /\ pc = "join"
    /\ i < Len(threads)
    /\ JoinReturns(threads[i + 1])
    /\ threads' = [threads EXCEPT ![i + 1] = Joined(@)]
    /\ i' = i + 1
    /\ UNCHANGED <<pc, calls, cur, m, data, iter, iter_prev, ret, proc, failure>>
    /\ UNCHANGED <<huff, nsd>>

(* lines 110-111 with the two sources exchanged *)
PublishedCrossed(mm, d) ==
    [mm EXCEPT !.pjLayerValues = d.bpWeights, !.pjValues = d.bpValues,
               !.bpWeights = d.pjLayerValues, !.bpValues = d.pjValues]

(* m_pjLayerValues = *data.pjLayerValues; m_bpWeights = *data.bpWeights; *)
Published(mm, d) ==
    [mm EXCEPT !.pjLayerValues = d.pjLayerValues, !.pjValues = d.pjValues,
               !.bpWeights = d.bpWeights, !.bpValues = d.bpValues]

(* lines 110-113 moved before the join loop of lines 99-101 *)
PublishBeforeJoin ==
    /\ proc = "alive"
    /\ pc = "join"
    /\ m' = Published(m, data)
    /\ ret' = "true"
    /\ pc' = "returned"
    /\ UNCHANGED <<calls, cur, data, threads, i, iter, iter_prev, proc, failure>>
    /\ UNCHANGED <<huff, nsd>>

(* lines 110-113: the matrices are copied into the model; return true *)
Publish ==
    /\ proc = "alive"
    /\ pc = "join"
    /\ i >= Len(threads)
    /\ m' = Published(m, data)
    /\ ret' = "true"
    /\ pc' = "returned"
    /\ UNCHANGED <<calls, cur, data, threads, i, iter, iter_prev, proc, failure>>
    /\ UNCHANGED <<huff, nsd>>

(* the call has returned: its arguments and its locals (threads, data,
   iter) are gone, the members of the word2vec_t object stay *)
Leave ==
    /\ proc = "alive"
    /\ pc = "returned"
    /\ pc' = "idle"
    /\ cur' = NoCall
    /\ threads' = <<>>
    /\ data' = NoData
    /\ i' = 0
    /\ iter' = 0
    /\ iter_prev' = 0
    /\ ret' = "none"
    /\ failure' = "none"
    /\ UNCHANGED <<calls, m, proc>>
    /\ UNCHANGED <<huff, nsd>>

----------------------------------------------------------------------------
(* trainThread_t::worker, after section 4.4 of the specification: for each
   iteration, for each document of the range, for each word: increment the
   shared counter, compute the rate from the value read, store the rate. *)

Running(w) ==
    /\ proc = "alive"
    /\ w \in 1..Len(threads)
    /\ threads[w].st = "running"

(* the worker's position after it has finished a word *)
Advance(t) ==
    IF t.k + 1 < cur.docLen THEN [t EXCEPT !.rd = Null, !.k = @ + 1]
    ELSE IF t.h < t.to THEN [t EXCEPT !.rd = Null, !.k = 0, !.h = @ + 1]
    ELSE [t EXCEPT !.rd = Null, !.k = 0, !.h = t.from, !.g = @ + 1]

(* the range is finished for iteration g: the worker writes g to _iter *)
EndsIteration(t) == ~(t.k + 1 < cur.docLen) /\ ~(t.h < t.to)

(* steps 1-3 for one word: rows of both matrices are rewritten in place;
   step 4, first half: processedWords is incremented atomically and the
   worker keeps the value it read *)
WorkerCount(w) ==
    /\ Running(w)
    /\ threads[w].g <= cur.iterations
    /\ threads[w].h < cur.nDocs
    /\ threads[w].rd = Null
    /\ data' = [data EXCEPT !.processedWords = @ + 1,
                            !.bpValues = "trained",
                            !.pjValues = "trained"]
    /\ threads' = [threads EXCEPT ![w].rd = data.processedWords + 1,
                                  ![w].done = @ + 1]
    /\ UNCHANGED <<pc, calls, cur, m, i, iter, iter_prev, ret, proc, failure>>
    /\ UNCHANGED <<huff, nsd>>

(* step 4, second half: the rate computed from the value read is stored
   into the shared alpha; the worker moves to the next word *)
WorkerStore(w) ==
    /\ Running(w)
    /\ threads[w].rd # Null
    /\ data' = [data EXCEPT !.alpha = Rate(cur, threads[w].rd)]
    /\ iter' = IF EndsIteration(threads[w]) THEN threads[w].g ELSE iter
    /\ threads' = [threads EXCEPT ![w] = Advance(@)]
    /\ UNCHANGED <<pc, calls, cur, m, i, iter_prev, ret, proc, failure>>
    /\ UNCHANGED <<huff, nsd>>

(* the outer loop over the iterations is over: the thread ends *)
WorkerFinish(w) ==
    /\ Running(w)
    /\ threads[w].g > cur.iterations
    /\ threads' = [threads EXCEPT ![w].st = "finished"]
    /\ UNCHANGED <<pc, calls, cur, m, data, i, iter, iter_prev, ret, proc, failure>>
    /\ UNCHANGED <<huff, nsd>>

(* the worker reads corpus->texts[h] with h >= texts.size(): undefined
   behaviour, the process crashes or the thread runs on and ends *)
WorkerOutOfRange(w, crash) ==
    /\ Running(w)
    /\ threads[w].g <= cur.iterations
    /\ threads[w].h >= cur.nDocs
    /\ IF crash
         THEN proc' = "crashed" /\ UNCHANGED threads
         ELSE proc' = proc /\ threads' = [threads EXCEPT ![w].st = "finished"]
    /\ UNCHANGED <<pc, calls, cur, m, data, i, iter, iter_prev, ret, failure>>
    /\ UNCHANGED <<huff, nsd>>

----------------------------------------------------------------------------

Next ==
    \/ Train
    \/ Validate
    \/ Alloc
    \/ AllocFails
    \/ Setup
    \/ \E std \in BOOLEAN : HuffmanFails(std)
    \/ CreateThread
    \/ CreateDone
    \/ CreateFails
    \/ Launch
    \/ LaunchFails
    \/ LaunchDone
    \/ Poll
    \/ PollDone
    \/ Join
    \/ Publish
    \/ Leave
    \/ \E w \in 1..MaxThreads : WorkerCount(w)
    \/ \E w \in 1..MaxThreads : WorkerStore(w)
    \/ \E w \in 1..MaxThreads : WorkerFinish(w)
    \/ \E w \in 1..MaxThreads, crash \in BOOLEAN : WorkerOutOfRange(w, crash)

Spec == Init /\ [][Next]_vars

----------------------------------------------------------------------------
(* The create loop of lines 65-75 alone, for document counts up to and
   beyond 2^24, where (float)n is no longer exact *)

PartDocs == (0..MaxPartDocs) \cup {Pow2Mant - 1 + d : d \in 0..(MaxPartExtra + 1)}

PartInit ==
    /\ pc = "create"
    /\ calls = 1
    /\ \E n \in PartDocs, t \in 0..MaxPartThreads :
          cur = [NoCall EXCEPT !.size = 1, !.vocab = 1, !.trainWords = 1,
                               !.nDocs = n, !.threads = t]
    /\ m = [vectorSize |-> 1, vocaburarySize |-> 1, pjLayerValues |-> 0,
            bpWeights |-> 0, errMsg |-> "", bpValues |-> "none",
            pjValues |-> "none"]
    /\ data = [NoData EXCEPT !.bpWeights = 1, !.pjLayerValues = 1,
                             !.bpValues = ZeroFilled,
                             !.pjValues = RandomFilled,
                             !.processedWords = InitProcessedWords,
                             !.alpha = InitAlpha(cur)]
    /\ threads = <<>>
    /\ i = 0
    /\ iter = 0
    /\ iter_prev = 0
    /\ ret = "none"
    /\ proc = "alive"
    /\ failure = "none"
    /\ huff = NoTree
    /\ nsd = NoTable

PartNext == CreateThread \/ CreateDone

PartSpec == PartInit /\ [][PartNext]_vars

-----------------------------------------------------------------------------
(* huffmanTree_t (spec 4.1): the greedy construction over a frequency table.
   Nodes 1..V are the leaves (word w is node w + 1), the internal nodes are
   appended in the order of their creation. *)

(* the state of train's variables while a table is built on its own *)
NoTraining ==
    /\ pc = "idle"
    /\ calls = 0
    /\ cur = NoCall
    /\ m = [vectorSize |-> 0, vocaburarySize |-> 0, pjLayerValues |-> 0,
            bpWeights |-> 0, errMsg |-> "", bpValues |-> "none",
            pjValues |-> "none"]
    /\ data = NoData
    /\ threads = <<>>
    /\ i = 0
    /\ iter = 0
    /\ iter_prev = 0
    /\ ret = "none"
    /\ proc = "alive"
    /\ failure = "none"

trainVars == <<pc, calls, cur, m, data, threads, i, iter, iter_prev, ret, proc,
               failure>>

(* the per-word frequency tables: 1..MaxHuffVocab words, each seen 1..MaxHuffFreq
   times *)
HuffFreqTables == UNION {[1..v -> 1..MaxHuffFreq] : v \in 1..MaxHuffVocab}

(* the forest before the first merge: every word is a root *)
NewTree(f) ==
    [st |-> "build", V |-> Len(f), weight |-> f,
     parent |-> [k \in 1..Len(f) |-> 0], bit |-> [k \in 1..Len(f) |-> 0]]

(* the nodes that have no parent yet *)
Roots(h) == {n \in 1..Len(h.weight) : h.parent[n] = 0}

(* a and b are two lowest-frequency roots: a is a lowest one, b a lowest of
   the others; equal frequencies may be taken in any order *)
TwoLowest(h, a, b) ==
    /\ a \in Roots(h)
    /\ b \in Roots(h) \ {a}
    /\ \A x \in Roots(h) : h.weight[a] <= h.weight[x]
    /\ \A x \in Roots(h) \ {a} : h.weight[b] <= h.weight[x]

(* both children of the new node get the bit 0 *)
MergedSameBit(h, a, b) ==
    LET n == Len(h.weight) + 1 IN
    [h EXCEPT !.weight = Append(@, h.weight[a] + h.weight[b]),
              !.parent = Append([@ EXCEPT ![a] = n, ![b] = n], 0),
              !.bit = Append([@ EXCEPT ![a] = 0, ![b] = 0], 0)]

(* a new internal node becomes the parent of a (bit 0) and b (bit 1); its
   frequency is the sum of theirs *)
Merged(h, a, b) ==
    LET n == Len(h.weight) + 1 IN
    [h EXCEPT !.weight = Append(@, h.weight[a] + h.weight[b]),
              !.parent = Append([@ EXCEPT ![a] = n, ![b] = n], 0),
              !.bit = Append([@ EXCEPT ![a] = 0, ![b] = 1], 0)]

(* one greedy merge of the two lowest-frequency roots *)
HuffMerge ==
    /\ huff.st = "build"
    /\ Cardinality(Roots(huff)) >= 2
    /\ \E a, b \in Roots(huff) :
          /\ TwoLowest(huff, a, b)
          /\ huff' = Merged(huff, a, b)
    /\ UNCHANGED <<trainVars, nsd>>

(* one root remains: the tree is complete *)
HuffFinish ==
    /\ huff.st = "build"
    /\ Cardinality(Roots(huff)) = 1
    /\ huff' = [huff EXCEPT !.st = "done"]
    /\ UNCHANGED <<trainVars, nsd>>

(* the bit code of node n, from the root down to n *)
RECURSIVE Code(_, _)
Code(h, n) ==
    IF h.parent[n] = 0 THEN <<>>
    ELSE Append(Code(h, h.parent[n]), h.bit[n])

HuffInit ==
    /\ NoTraining
    /\ \E f \in HuffFreqTables : huff = NewTree(f)
    /\ nsd = NoTable

HuffNext == HuffMerge \/ HuffFinish

HuffSpec == HuffInit /\ [][HuffNext]_vars

-----------------------------------------------------------------------------
(* nsDistribution_t (spec 4.2): the table of word ids, filled index by index.
   Frequencies are fourth powers, so that frequency^0.75 is an integer and
   the shares are computed exactly. *)

NsFreqs == {k * k * k * k : k \in 1..MaxNsRoot}

NsFreqTables == UNION {[1..v -> NsFreqs] : v \in 1..MaxNsVocab}

Root4(f) == CHOOSE k \in 0..f : k * k * k * k = f

(* the more frequent word gets the smaller share *)
ShareInverted(f) ==
    LET k == MaxNsRoot + 1 - Root4(f) IN k * k * k

(* frequency^0.75 *)
Share(f) == LET k == Root4(f) IN k * k * k

(* the sum of the shares of the first k words *)
RECURSIVE CumShare(_, _)
CumShare(f, k) ==
    IF k = 0 THEN 0 ELSE CumShare(f, k - 1) + Share(f[k])

NewTable(f, size) == [st |-> "fill", freq |-> f, size |-> size, table |-> <<>>]

(* the word id stored at index a (from 0): the first word w whose cumulative
   share, as a fraction of the total, lies beyond a / size *)
WordAt(t, a) ==
    LET V == Len(t.freq)
        Beyond(w) == a * CumShare(t.freq, V) < t.size * CumShare(t.freq, w + 1)
    IN  CHOOSE w \in 0..(V - 1) :
            Beyond(w) /\ \A u \in 0..(w - 1) : ~Beyond(u)

(* the next index of the table is filled *)
NsFill ==
    /\ nsd.st = "fill"
    /\ Len(nsd.table) < nsd.size
    /\ nsd' = [nsd EXCEPT !.table = Append(@, WordAt(nsd, Len(@)))]
    /\ UNCHANGED <<trainVars, huff>>

(* every index is filled: the table is complete *)
NsFinish ==
    /\ nsd.st = "fill"
    /\ Len(nsd.table) = nsd.size
    /\ nsd' = [nsd EXCEPT !.st = "done"]
    /\ UNCHANGED <<trainVars, huff>>

NsInit ==
    /\ NoTraining
    /\ huff = NoTree
    /\ \E f \in NsFreqTables, size \in 1..MaxNsTable : nsd = NewTable(f, size)

NsNext == NsFill \/ NsFinish

NsSpec == NsInit /\ [][NsNext]_vars

----------------------------------------------------------------------------
(* Properties *)

InCall == pc # "idle"

InvalidInput == cur.size = 0 \/ cur.vocab = 0 \/ cur.trainWords = 0

ValidationMsgs == {MsgVectorSize, MsgVocabSize, MsgTrainWords}

(* C1: when the dimensionality, the vocabulary size or the trainable word
   count is 0, the call never gets past the validation: no worker is
   created or launched, no matrix is allocated, and the call returns false
   with one of the validation messages stored in m_errMsg. *)
C1_InvalidInputAborts ==
    (InCall /\ InvalidInput) =>
        /\ pc \in {"validate", "returned"}
        /\ threads = <<>>
        /\ data = NoData
        /\ pc = "returned" => (ret = "false" /\ m.errMsg \in ValidationMsgs)

(* a call with trainWords = 0 and nothing else wrong has returned *)
C1_Witness ==
    /\ pc = "returned"
    /\ cur.size > 0 /\ cur.vocab > 0 /\ cur.trainWords = 0
    /\ ret = "false"
    /\ m.errMsg = MsgTrainWords


(* C2: the value of the shared atomic alpha never goes up while workers
   store into it, whatever the number of workers and the interleaving of
   their increment and store steps. *)
C2_AlphaNeverIncreases ==
    [][(data.alpha # Null /\ data'.alpha # Null) => data'.alpha <= data.alpha]_vars

(* exact ceil(n / t) *)
CeilDiv(n, t) == (n + t - 1) \div t

LoopOver == pc = "launch" /\ i = 0

(* C3: for n >= 1 documents and t >= 1 requested workers, once the create
   loop is over the ranges are contiguous and disjoint, start at 0, end at
   n - 1, all but the last hold ceil(n / t) documents, and there are at
   most t of them. *)
C3_RangesPartitionDocuments ==
    (LoopOver /\ cur.nDocs >= 1 /\ cur.threads >= 1) =>
        /\ Len(threads) >= 1
        /\ Len(threads) <= cur.threads
        /\ threads[1].from = 0
        /\ threads[Len(threads)].to = cur.nDocs - 1
        /\ \A w \in 1..Len(threads) : threads[w].from <= threads[w].to
        /\ \A w \in 1..(Len(threads) - 1) :
              /\ threads[w + 1].from = threads[w].to + 1
              /\ threads[w].to - threads[w].from + 1
                    = CeilDiv(cur.nDocs, cur.threads)

(* C4: every worker that train creates has a non-empty range inside the
   document list: from <= to < texts.size(). *)
C4_RangesInBounds ==
    \A w \in 1..Len(threads) :
        threads[w].from <= threads[w].to /\ threads[w].to < cur.nDocs

AllJoined == \A w \in 1..Len(threads) : threads[w].joins = 1

(* C5, as stated: whenever train has returned, with true or with false,
   every created worker was launched exactly once and joined exactly once. *)
C5_EveryCreatedWorkerJoined ==
    ret # "none" =>
        \A w \in 1..Len(threads) :
            threads[w].launches = 1 /\ threads[w].joins = 1

(* C5, amended: no worker is launched or joined twice, none is joined
   before it is launched or before it has ended; when train has returned no
   worker is running and every launched worker has been joined; when train
   has returned true every created worker was launched once and joined
   once; the model's matrices are written only after every join. *)
C5_LaunchedWorkersJoined ==
    /\ \A w \in 1..Len(threads) :
          /\ threads[w].joins <= threads[w].launches
          /\ threads[w].launches <= 1
          /\ threads[w].joins = 1 => threads[w].st = "finished"
    /\ ret # "none" =>
          \A w \in 1..Len(threads) :
              /\ threads[w].st # "running"
              /\ threads[w].joins = threads[w].launches
    /\ ret = "true" =>
          \A w \in 1..Len(threads) :
              threads[w].launches = 1 /\ threads[w].joins = 1
    /\ (InCall /\ (m.pjLayerValues # 0 \/ m.bpWeights # 0)) =>
          (ret = "true" /\ AllJoined)

(* train has returned true after two workers ran and were joined *)
C5_Witness ==
    /\ ret = "true"
    /\ Len(threads) = 2
    /\ AllJoined
    /\ \A w \in 1..2 : threads[w].done >= 1
    /\ m.pjLayerValues = data.pjLayerValues

(* the message the handler stores for each kind of failure *)
FailureMsgs(kind) ==
    IF kind = "validation" THEN ValidationMsgs
    ELSE IF kind = "alloc" THEN {MsgBadAlloc}
    ELSE IF kind = "huffman" THEN {MsgHuffman, MsgUnknown}
    ELSE {}

(* C6: whatever fails during the call (a validation check, an allocation,
   the Huffman tree, the creation of a worker thread in launch), the process
   lives on and train returns false with the failure's message stored. *)
C6_NoFailureEscapes ==
    failure # "none" =>
        /\ proc = "alive"
        /\ pc = "returned"
        /\ ret = "false"
        /\ m.errMsg \in FailureMsgs(failure)

AllFinished == \A w \in 1..Len(threads) : threads[w].st = "finished"

(* C7: train is not kept in the verbose polling loop once every launched
   worker has finished: the loop condition iter < iter_max is then false,
   for every worker count and iteration count the validation accepts. *)
C7_PollingEndsWithWorkers ==
    (pc = "poll" /\ AllFinished) => ~(iter < cur.iterations)

(* C8: a worker only moves idle -> running (by launch, which puts it at the
   start of its range) and running -> finished; join returns only for a
   worker that was launched and has finished. *)
C8_WorkerStateMachine ==
    [][\A w \in 1..Len(threads) :
          w <= Len(threads') =>
            /\ threads'[w].st # threads[w].st =>
                  <<threads[w].st, threads'[w].st>>
                      \in {<<"idle", "running">>, <<"running", "finished">>}
            /\ (threads[w].st = "idle" /\ threads'[w].st = "running") =>
                  /\ threads'[w].launches = threads[w].launches + 1
                  /\ threads'[w].h = threads[w].from
                  /\ threads'[w].from = threads[w].from
                  /\ threads'[w].to = threads[w].to
            /\ threads'[w].joins > threads[w].joins =>
                  /\ threads[w].st = "finished"
                  /\ threads[w].launches = 1]_vars

(* a worker that was launched, ran over its range, finished and was joined *)
C8_Witness ==
    \E w \in 1..Len(threads) :
        /\ threads[w].st = "finished"
        /\ threads[w].launches = 1
        /\ threads[w].joins = 1
        /\ threads[w].done >= 1

RECURSIVE SumDone(_)
(* the words processed so far by all workers together *)
SumDone(ts) == IF ts = <<>> THEN 0 ELSE Head(ts).done + SumDone(Tail(ts))

(* C9: the shared counter always equals the number of words processed so
   far by all workers together, and it never decreases during a call. *)
C9_CounterLosesNothing ==
    [][/\ data'.processedWords # Null =>
              data'.processedWords = SumDone(threads')
       /\ (data.processedWords # Null /\ data'.processedWords # Null) =>
              data'.processedWords >= data.processedWords]_vars

(* both workers have processed words and have been joined *)
C9_Witness ==
    /\ pc = "join"
    /\ Len(threads) = 2
    /\ AllJoined
    /\ \A w \in 1..2 : threads[w].done >= 1
    /\ data.processedWords = threads[1].done + threads[2].done

(* C10: over the counter values reached so far the rate is non-increasing
   in the counter and never below the floor, and neither is the value held
   in the shared alpha. *)
C10_RateNonIncreasingAboveFloor ==
    data.processedWords # Null =>
        /\ \A c \in 0..data.processedWords :
              /\ Rate(cur, c + 1) <= Rate(cur, c)
              /\ Rate(cur, c) >= RateFloor(cur)
              /\ Rate(cur, c) <= InitAlpha(cur)
        /\ data.alpha >= RateFloor(cur)

(* the counter has passed iterations * trainWords and the rate is at the
   floor, below its first value *)
C10_Witness ==
    /\ data.processedWords # Null
    /\ cur.iterations >= 1
    /\ data.processedWords > cur.iterations * cur.trainWords
    /\ data.alpha = RateFloor(cur)
    /\ data.alpha < InitAlpha(cur)


(* C11: from their allocation on both matrices of the call hold exactly
   vocabularySize x dimensionality entries, whatever train and the workers
   do, and so do the two matrices published by a successful train. *)
C11_MatricesKeepTheirShape ==
    /\ (InCall /\ data.pjLayerValues # Null) =>
          /\ data.pjLayerValues = cur.vocab * cur.size
          /\ data.bpWeights = cur.vocab * cur.size
    /\ ret = "true" =>
          /\ m.pjLayerValues = cur.vocab * cur.size
          /\ m.bpWeights = cur.vocab * cur.size

(* a successful train whose two workers rewrote matrix rows *)
C11_Witness ==
    /\ ret = "true"
    /\ Len(threads) = 2
    /\ data.pjValues = "trained"
    /\ m.pjLayerValues = cur.vocab * cur.size
    /\ m.pjLayerValues >= 1

(* C12: with iterations = 0 no worker writes a matrix entry: the output
   matrix stays all zero and the input matrix keeps its initial values, in
   the call and in what a successful train publishes; and unless something
   fails the call returns true. *)
C12_ZeroIterationsLeaveMatrices ==
    (InCall /\ cur.iterations = 0) =>
        /\ data.bpValues \in {"none", ZeroFilled}
        /\ data.pjValues \in {"none", RandomFilled}
        /\ ret = "true" => (m.bpValues = ZeroFilled /\ m.pjValues = RandomFilled)
        /\ (pc = "returned" /\ failure = "none") => ret = "true"

(* a successful train with iterations = 0 whose two workers ran and ended *)
C12_Witness ==
    /\ ret = "true"
    /\ cur.iterations = 0
    /\ Len(threads) = 2
    /\ AllJoined
    /\ m.bpValues = ZeroFilled

(* the message of the first check that the arguments violate *)
FirstViolated(c) ==
    IF c.size = 0 THEN MsgVectorSize
    ELSE IF c.vocab = 0 THEN MsgVocabSize
    ELSE MsgTrainWords

(* C14: when the arguments violate a check the call returns false and
   m_errMsg is the message of the first violated check in the order
   dimensionality, vocabulary size, trainable word count; in particular the
   vocabulary message when only the vocabulary is empty. *)
C14_FirstViolatedCheckReported ==
    (pc = "returned" /\ InvalidInput) =>
        (ret = "false" /\ m.errMsg = FirstViolated(cur))

(* the vocabulary is empty, everything else is valid, the call has returned *)
C14_Witness ==
    /\ pc = "returned"
    /\ cur.size > 0 /\ cur.vocab = 0 /\ cur.trainWords > 0
    /\ ret = "false"
    /\ m.errMsg = MsgVocabSize

(* the scalars that running workers write and that train or other workers
   read to decide something *)
SharedScalars == {"processedWords", "alpha", "iter"}

(* std::atomic<std::size_t> processedWords, std::atomic<float> alpha;
   int iter of word2vec.cpp:77 is a plain int *)
AtomicScalars == {"processedWords", "alpha"}

(* the next step of worker w writes the scalar v *)
WorkerWrites(w, v) ==
    /\ Running(w)
    /\ IF v = "processedWords"
         THEN /\ threads[w].g <= cur.iterations
              /\ threads[w].h < cur.nDocs
              /\ threads[w].rd = Null
       ELSE IF v = "alpha" THEN threads[w].rd # Null
       ELSE threads[w].rd # Null /\ EndsIteration(threads[w])

(* lines 86 and 88: the verbose loop reads iter *)
TrainReads(v) == v = "iter" /\ pc = "poll" /\ proc = "alive"

(* two accesses to v, one of them a worker's write, may happen now with
   nothing ordering them *)
Conflict(v) ==
    \E w \in 1..Len(threads) :
        /\ WorkerWrites(w, v)
        /\ \/ TrainReads(v)
           \/ \E u \in 1..Len(threads) : u # w /\ WorkerWrites(u, v)

(* C17: every scalar that a running worker writes while train or another
   worker may access it is an atomic. *)
C17_SharedScalarsAtomic ==
    \A v \in SharedScalars : Conflict(v) => v \in AtomicScalars

(* C18: outside a call the two published matrices each hold
   m_vectorSize * m_vocaburarySize entries. *)
C18_SizesMatchMatrices ==
    pc \in {"idle", "returned"} =>
        /\ m.pjLayerValues = m.vectorSize * m.vocaburarySize
        /\ m.bpWeights = m.vectorSize * m.vocaburarySize

(* C19: when train has returned true at least one worker was created, every
   worker was launched, and the ranges cover the documents 0..n-1 once. *)
C19_TrueMeansEveryDocumentTrained ==
    ret = "true" =>
        /\ Len(threads) >= 1
        /\ \A w \in 1..Len(threads) : threads[w].launches = 1
        /\ threads[1].from = 0
        /\ threads[Len(threads)].to = cur.nDocs - 1
        /\ \A w \in 1..(Len(threads) - 1) :
              threads[w + 1].from = threads[w].to + 1


IsPrefix(s, t) == Len(s) <= Len(t) /\ SubSeq(t, 1, Len(s)) = s

(* C15: for every frequency table with V >= 2 words the finished Huffman
   tree has exactly V - 1 internal nodes and no word's code is a prefix of
   another word's code. *)
C15_HuffmanInternalNodesAndPrefixFree ==
    (huff.st = "done" /\ huff.V >= 2) =>
        /\ Len(huff.weight) - huff.V = huff.V - 1
        /\ \A a, b \in 1..huff.V :
              a # b => ~IsPrefix(Code(huff, a), Code(huff, b))

(* a finished tree over the largest vocabulary whose codes differ in length *)
C15_Witness ==
    /\ huff.st = "done"
    /\ huff.V = MaxHuffVocab
    /\ \E a, b \in 1..huff.V : Len(Code(huff, a)) < Len(Code(huff, b))

(* the number of table entries that hold the word id w *)
Slice(t, w) == Cardinality({a \in 1..Len(t.table) : t.table[a] = w})

(* C16: the finished table has exactly the configured number of entries,
   every entry is a word id in [0, V), every word occupies one contiguous
   slice, and a word at least as frequent as another has a slice that is at
   most one entry smaller. *)
C16_TableShape ==
    nsd.st = "done" =>
        LET V == Len(nsd.freq) IN
        /\ Len(nsd.table) = nsd.size
        /\ \A a \in 1..Len(nsd.table) : nsd.table[a] \in 0..(V - 1)
        /\ \A a, b, c \in 1..Len(nsd.table) :
              (a < b /\ b < c /\ nsd.table[a] = nsd.table[c])
                  => nsd.table[b] = nsd.table[a]
        /\ \A u, w \in 0..(V - 1) :
              nsd.freq[u + 1] >= nsd.freq[w + 1]
                  => Slice(nsd, u) >= Slice(nsd, w) - 1

(* a finished table of the largest size in which a more frequent word holds
   at least two entries more than a less frequent one *)
C16_Witness ==
    /\ nsd.st = "done"
    /\ nsd.size = MaxNsTable
    /\ \E u, w \in 0..(Len(nsd.freq) - 1) :
          /\ nsd.freq[u + 1] > nsd.freq[w + 1]
          /\ Slice(nsd, u) >= Slice(nsd, w) + 2

====
